---- MODULE Spec2Model ----
(***************************************************************************)
(* Model of optimize_roster.py: the integer-programming roster optimizer   *)
(* (optimize_roster) and the multi-lineup loop of main.                    *)
(*                                                                         *)
(* Strings that the code parses ('Roster Position', the keys of the        *)
(* position-requirements dict) are sequences of one-character strings.     *)
(* The DataFrame index is 1..n here (RangeIndex 0..n-1 in the code).       *)
(* AvgPointsPerGame and Salary are integers.                               *)
(***************************************************************************)
EXTENDS Integers, Sequences, FiniteSets, TLC

\* ---------------------------------------------------------------- bounds
MaxPlayers == 3
MaxQuota == 2
MaxBudget == 8
MaxLineups == 3
MaxMinDiff == 2

\* ------------------------------------------------- solver status codes
\* pulp's LpStatus values; the code compares prob.status with 1.
LpStatusOptimal == 1
LpStatusNotSolved == 0
LpStatusInfeasible == -1
LpStatusUndefined == -3

\* ---------------------------------------------------------------- inputs
PosA == <<"A">>
PosB == <<"B">>

\* The rows a players file may hold.
RowTable ==
  << [RosterPosition |-> <<"A">>, AvgPointsPerGame |-> 10, Salary |-> 5],
     [RosterPosition |-> <<"A">>, AvgPointsPerGame |-> 8, Salary |-> 4],
     [RosterPosition |-> <<"B">>, AvgPointsPerGame |-> 6, Salary |-> 3],
     [RosterPosition |-> <<"A", " ", "/", " ", "B">>,
      AvgPointsPerGame |-> 8, Salary |-> 4] >>

\* Players files: up to MaxPlayers rows of RowTable.  No constraint of the
\* model depends on the order of the rows, so rows are listed in table order.
PlayerFiles ==
  { [k \in DOMAIN p |-> RowTable[p[k]]] :
      p \in { q \in UNION { [1..n -> DOMAIN RowTable] : n \in 1..MaxPlayers } :
                \A k \in 1..(Len(q) - 1) : q[k] <= q[k + 1] } }

\* Config files: a JSON object from position name to count.
ConfigFiles ==
  UNION { [K -> 0..MaxQuota] : K \in (SUBSET {PosA, PosB}) \ {{}} }

\* --max-salary
MaxSalaryArgs == {-1, 0, MaxBudget - 2, MaxBudget}

\* ------------------------------------------------------------- helpers
RECURSIVE SetSum(_, _)
SetSum(f, S) ==
  IF S = {} THEN 0
  ELSE LET x == CHOOSE y \in S : TRUE IN f[x] + SetSum(f, S \ {x})

\* str.strip(): drop leading and trailing blanks.
RECURSIVE Strip(_)
Strip(s) ==
  IF s = <<>> THEN s
  ELSE IF Head(s) = " " THEN Strip(Tail(s))
  ELSE IF s[Len(s)] = " " THEN Strip(SubSeq(s, 1, Len(s) - 1))
  ELSE s

\* str.split('/'): the pieces between slashes, in order.
RECURSIVE Split(_)
Split(s) ==
  IF \A k \in DOMAIN s : s[k] # "/" THEN <<s>>
  ELSE LET k == CHOOSE j \in DOMAIN s :
                  s[j] = "/" /\ \A m \in 1..(j - 1) : s[m] # "/"
       IN <<SubSeq(s, 1, k - 1)>> \o Split(SubSeq(s, k + 1, Len(s)))

\* Mutant: the pieces are not stripped.
PositionsAvailable_NoStrip(roster_pos) == Split(roster_pos)

\* positions_available = [p.strip() for p in roster_pos.split('/')]
PositionsAvailable(roster_pos) ==
  LET parts == Split(roster_pos) IN [k \in DOMAIN parts |-> Strip(parts[k])]

\* --------------------------------------------------- optimize_roster
\* player_position_vars: one binary variable per (idx, position) with
\* position a key of position_requirements found in positions_available.
PlayerPositionVars(players_df, position_requirements) ==
  { v \in (DOMAIN players_df) \X (DOMAIN position_requirements) :
      LET positions_available ==
            PositionsAvailable(players_df[v[1]].RosterPosition)
      IN \E k \in DOMAIN positions_available : positions_available[k] = v[2] }

\* "Total_Points": AvgPointsPerGame * var over all variables.
Objective(players_df, pvars) ==
  [v \in pvars |-> players_df[v[1]].AvgPointsPerGame]

\* "Salary_Cap": Salary * var over all variables <= max_salary.
SalaryCap(players_df, pvars, max_salary) ==
  [terms |-> [v \in pvars |-> players_df[v[1]].Salary],
   sense |-> "<=", rhs |-> max_salary]

\* Mutant: no "Player_{idx}_Once" constraint is added.
PlayerOnce_Dropped(players_df, pvars) == {}

\* "Player_{idx}_Once": for each idx with variables, their sum <= 1.
PlayerOnce(players_df, pvars) ==
  { [name |-> idx,
     terms |-> [v \in {w \in pvars : w[1] = idx} |-> 1],
     sense |-> "<=", rhs |-> 1] :
      idx \in {i \in DOMAIN players_df : \E w \in pvars : w[1] = i} }

\* "Position_{position}": the sum of the position's variables == count,
\* added also when the position has no variable.
PositionExact(position_requirements, pvars) ==
  { [name |-> position,
     terms |-> [v \in {w \in pvars : w[2] = position} |-> 1],
     sense |-> "==", rhs |-> position_requirements[position]] :
      position \in DOMAIN position_requirements }

\* The positions the WARNING of line 89 is printed for.
NoPlayersWarnings(position_requirements, pvars) ==
  { position \in DOMAIN position_requirements :
      \A w \in pvars : w[2] # position }

\* sum(position_requirements.values())
TotalPlayers(position_requirements) ==
  SetSum(position_requirements, DOMAIN position_requirements)

\* Mutant: max_overlap is total_players, min_different_players not subtracted.
DifferFromLineups_NoMinDiff(position_requirements, pvars, previous_lineups, min_different_players) ==
  LET max_overlap == TotalPlayers(position_requirements)
      overlap_vars(n) == {w \in pvars : w[1] \in previous_lineups[n]}
  IN { [name |-> n,
        terms |-> [v \in overlap_vars(n) |-> 1],
        sense |-> "<=", rhs |-> max_overlap] :
         n \in {m \in DOMAIN previous_lineups : overlap_vars(m) # {}} }

\* Mutant: only the most recent previous lineup is constrained against.
DifferFromLineups_LastOnly(position_requirements, pvars, previous_lineups, min_different_players) ==
  LET max_overlap ==
        TotalPlayers(position_requirements) - min_different_players
      overlap_vars(n) == {w \in pvars : w[1] \in previous_lineups[n]}
  IN { [name |-> n,
        terms |-> [v \in overlap_vars(n) |-> 1],
        sense |-> "<=", rhs |-> max_overlap] :
         n \in {m \in DOMAIN previous_lineups :
                  m = Len(previous_lineups) /\ overlap_vars(m) # {}} }

\* "Differ_from_Lineup_{n}": for each previous lineup whose players have
\* variables, the sum of those variables <= total_players - min_different.
\* previous_lineups is <<>> both for None and for the empty list.
DifferFromLineups(position_requirements, pvars, previous_lineups, min_different_players) ==
  LET max_overlap ==
        TotalPlayers(position_requirements) - min_different_players
      overlap_vars(n) == {w \in pvars : w[1] \in previous_lineups[n]}
  IN { [name |-> n,
        terms |-> [v \in overlap_vars(n) |-> 1],
        sense |-> "<=", rhs |-> max_overlap] :
         n \in {m \in DOMAIN previous_lineups : overlap_vars(m) # {}} }

\* prob, as it stands when prob.solve() is called.
BuildProblem(players_df, position_requirements, max_salary, previous_lineups, min_different_players) ==
  LET pvars == PlayerPositionVars(players_df, position_requirements)
  IN [vars |-> pvars,
      objective |-> Objective(players_df, pvars),
      salary_cap |-> SalaryCap(players_df, pvars, max_salary),
      player_once |-> PlayerOnce(players_df, pvars),
      position |-> PositionExact(position_requirements, pvars),
      differ |-> DifferFromLineups(position_requirements, pvars,
                                   previous_lineups, min_different_players)]

\* ---------------------------------------------------------- the solver
\* An assignment of the binary variables is the set S of those set to 1.
Satisfies(S, c) ==
  LET lhs == SetSum(c.terms, S \cap DOMAIN c.terms)
  IN IF c.sense = "<=" THEN lhs <= c.rhs ELSE lhs = c.rhs

Feasible(p) ==
  { S \in SUBSET p.vars :
      /\ Satisfies(S, p.salary_cap)
      /\ \A c \in p.player_once : Satisfies(S, c)
      /\ \A c \in p.position : Satisfies(S, c)
      /\ \A c \in p.differ : Satisfies(S, c) }

\* What an exact solver may report for p: every maximiser of the objective.
OptimalSolutions(p) ==
  LET F == Feasible(p)
      values == {SetSum(p.objective, T) : T \in F}
      best == CHOOSE m \in values : \A n \in values : n <= m
  IN IF F = {} THEN {} ELSE {S \in F : SetSum(p.objective, S) = best}

\* ------------------------------------------------- result extraction
\* return None, None, None, None
NoneResult ==
  [isNone |-> TRUE, selected_players |-> {}, total_points |-> 0,
   total_salary |-> 0, position_assignments |-> <<>>]

\* The rows of selected_players are the variables with value 1: a pair
\* (idx, Assigned_Position) each.
ExtractResult(players_df, selected_data) ==
  [isNone |-> FALSE,
   selected_players |-> selected_data,
   total_points |->
     SetSum([v \in selected_data |-> players_df[v[1]].AvgPointsPerGame],
            selected_data),
   total_salary |->
     SetSum([v \in selected_data |-> players_df[v[1]].Salary], selected_data),
   position_assignments |->
     [idx \in {v[1] : v \in selected_data} |->
        (CHOOSE v \in selected_data : v[1] = idx)[2]]]

\* set(selected_players.index)
PlayerIndices(r) == {v[1] : v \in r.selected_players}

\* --------------------------------------------------------------- state
VARIABLES
  players_df,            \* load_players(args.players)
  position_requirements, \* load_position_requirements(args.config)
  max_salary,            \* args.max_salary
  num_lineups,           \* args.num_lineups
  min_diff,              \* args.min_diff
  i,                     \* the loop variable of main, range(num_lineups)
  all_lineups,           \* main's list of returned tuples
  previous_lineups,      \* main's list of player-index sets
  pc,                    \* where the run stands
  prob,                  \* optimize_roster's LpProblem
  status,                \* prob.status after prob.solve()
  solution,              \* the variables whose value is 1 after solve
  result,                \* the tuple optimize_roster returned to main
  warned,                \* positions the "No players found" WARNING named
  solverCalls,           \* how many times prob.solve() has been called
  stopMsg,               \* the count in "Only {i} lineup(s) created", or -1
  outCount,              \* the count in "({n} lineup(s))" of the output, or -1
  error,                 \* the exception that ended the run, or "none"
  solverFailed           \* the solver ended without deciding the problem

inputs == <<players_df, position_requirements, max_salary, num_lineups, min_diff>>
locals == <<prob, status, solution>>
vars == <<players_df, position_requirements, max_salary, num_lineups, min_diff,
          i, all_lineups, previous_lineups, pc, prob, status, solution, result,
          warned, solverCalls, stopMsg, outCount, error, solverFailed>>

\* LpProblem("DFS_Roster_Optimization", LpMaximize), nothing added yet.
EmptyProblem ==
  [vars |-> {}, objective |-> <<>>,
   salary_cap |-> [terms |-> <<>>, sense |-> "<=", rhs |-> 0],
   player_once |-> {}, position |-> {}, differ |-> {}]

Init ==
  /\ players_df \in PlayerFiles
  /\ position_requirements \in ConfigFiles
  /\ max_salary \in MaxSalaryArgs
  /\ num_lineups \in 1..MaxLineups
  /\ min_diff \in 0..MaxMinDiff
  /\ i = 0
  /\ all_lineups = <<>>
  /\ previous_lineups = <<>>
  /\ pc = "loop"
  /\ prob = EmptyProblem
  /\ status = LpStatusNotSolved
  /\ solution = {}
  /\ result = NoneResult
  /\ warned = {}
  /\ solverCalls = 0
  /\ stopMsg = -1
  /\ outCount = -1
  /\ error = "none"
  /\ solverFailed = FALSE

\* main, for i in range(num_lineups): the call of optimize_roster with
\* previous_lineups if i > 0 else None, up to the point before prob.solve().
BuildModel ==
  /\ pc = "loop"
  /\ i < num_lineups
  /\ prob' = BuildProblem(players_df, position_requirements, max_salary,
                          IF i > 0 THEN previous_lineups ELSE <<>>, min_diff)
  /\ warned' = warned \cup NoPlayersWarnings(position_requirements, prob'.vars)
  /\ pc' = "solve"
  /\ UNCHANGED <<inputs, i, all_lineups, previous_lineups, status, solution,
                 result, solverCalls, stopMsg, outCount, error, solverFailed>>

\* prob.solve() with a solver that decides the problem.
Solve ==
  /\ pc = "solve"
  /\ solverCalls' = solverCalls + 1
  /\ LET opt == OptimalSolutions(prob)
     IN IF opt = {}
        THEN status' = LpStatusInfeasible /\ solution' = {}
        ELSE status' = LpStatusOptimal /\ solution' \in opt
  /\ pc' = "solved"
  /\ UNCHANGED <<inputs, i, all_lineups, previous_lineups, prob, result,
                 warned, stopMsg, outCount, error, solverFailed>>

\* prob.solve() with a solver that stops without an answer: the status is
\* then Not Solved or Undefined.
SolveUndecided ==
  /\ pc = "solve"
  /\ solverCalls' = solverCalls + 1
  /\ status' \in {LpStatusNotSolved, LpStatusUndefined}
  /\ solution' = {}
  /\ solverFailed' = TRUE
  /\ pc' = "solved"
  /\ UNCHANGED <<inputs, i, all_lineups, previous_lineups, prob, result,
                 warned, stopMsg, outCount, error>>

\* prob.solve() raising (pulp's PulpSolverError): nothing catches it.
SolveRaises ==
  /\ pc = "solve"
  /\ solverCalls' = solverCalls + 1
  /\ solverFailed' = TRUE
  /\ error' = "PulpSolverError"
  /\ pc' = "crashed"
  /\ UNCHANGED <<inputs, i, all_lineups, previous_lineups, prob, status,
                 solution, result, warned, stopMsg, outCount>>

\* if prob.status != 1: return None, None, None, None
ReturnNone ==
  /\ pc = "solved"
  /\ status # LpStatusOptimal
  /\ result' = NoneResult
  /\ prob' = EmptyProblem /\ status' = LpStatusNotSolved /\ solution' = {}
  /\ pc' = "returned"
  /\ UNCHANGED <<inputs, i, all_lineups, previous_lineups, warned,
                 solverCalls, stopMsg, outCount, error, solverFailed>>

\* The extraction loop and the totals, with at least one selected row.
ReturnSelection ==
  /\ pc = "solved"
  /\ status = LpStatusOptimal
  /\ LET selected_data == {v \in prob.vars : v \in solution}
     IN /\ selected_data # {}
        /\ result' = ExtractResult(players_df, selected_data)
  /\ prob' = EmptyProblem /\ status' = LpStatusNotSolved /\ solution' = {}
  /\ pc' = "returned"
  /\ UNCHANGED <<inputs, i, all_lineups, previous_lineups, warned,
                 solverCalls, stopMsg, outCount, error, solverFailed>>

\* The same with no selected row: pd.DataFrame([]) has no column, and
\* selected_players['AvgPointsPerGame'] raises KeyError.
ExtractRaises ==
  /\ pc = "solved"
  /\ status = LpStatusOptimal
  /\ {v \in prob.vars : v \in solution} = {}
  /\ error' = "KeyError"
  /\ pc' = "crashed"
  /\ UNCHANGED <<inputs, i, all_lineups, previous_lineups, prob, status,
                 solution, result, warned, solverCalls, stopMsg, outCount,
                 solverFailed>>

\* if selected_players is None: print the warning and break
StopEarly ==
  /\ pc = "returned"
  /\ result.isNone
  /\ stopMsg' = i
  /\ pc' = "output"
  /\ UNCHANGED <<inputs, i, all_lineups, previous_lineups, locals, result,
                 warned, solverCalls, outCount, error, solverFailed>>

\* all_lineups.append(...); previous_lineups.append(player_indices)
AppendLineup ==
  /\ pc = "returned"
  /\ ~result.isNone
  /\ all_lineups' = Append(all_lineups, result)
  /\ previous_lineups' = Append(previous_lineups, PlayerIndices(result))
  /\ i' = i + 1
  /\ pc' = "loop"
  /\ UNCHANGED <<inputs, locals, result, warned, solverCalls, stopMsg,
                 outCount, error, solverFailed>>

\* range(num_lineups) is exhausted.
LoopEnds ==
  /\ pc = "loop"
  /\ i >= num_lineups
  /\ pc' = "output"
  /\ UNCHANGED <<inputs, i, all_lineups, previous_lineups, locals, result,
                 warned, solverCalls, stopMsg, outCount, error, solverFailed>>

\* generate_dk_output, generate_human_readable_output, "Optimization complete!"
GenerateOutputs ==
  /\ pc = "output"
  /\ outCount' = Len(all_lineups)
  /\ pc' = "done"
  /\ UNCHANGED <<inputs, i, all_lineups, previous_lineups, locals, result,
                 warned, solverCalls, stopMsg, error, solverFailed>>

Next ==
  \/ BuildModel
  \/ Solve
  \/ ReturnNone
  \/ ReturnSelection
  \/ ExtractRaises
  \/ StopEarly
  \/ AppendLineup
  \/ LoopEnds
  \/ GenerateOutputs

Spec == Init /\ [][Next]_vars

\* The same run with a solver that may fail.
NextSolverFailure ==
  \/ Next
  \/ SolveUndecided
  \/ SolveRaises

SpecSolverFailure == Init /\ [][NextSolverFailure]_vars

\* ============================================================== claims
\* Eligibility stated on the 'Roster Position' text itself: position c is
\* one of the slash-separated entries, blanks around it aside.
Eligible(roster_pos, c) ==
  \E a, b \in DOMAIN roster_pos :
    /\ a <= b
    /\ SubSeq(roster_pos, a, b) = c
    /\ \E l \in 0..(a - 1) :
         /\ l = 0 \/ roster_pos[l] = "/"
         /\ \A k \in (l + 1)..(a - 1) : roster_pos[k] = " "
    /\ \E r \in (b + 1)..(Len(roster_pos) + 1) :
         /\ r = Len(roster_pos) + 1 \/ roster_pos[r] = "/"
         /\ \A k \in (b + 1)..(r - 1) : roster_pos[k] = " "

\* Every Selection optimize_roster has returned in this run.
Selections ==
  {all_lineups[k] : k \in DOMAIN all_lineups}
    \cup (IF pc = "returned" /\ ~result.isNone THEN {result} ELSE {})

SalaryOf(rows) ==
  SetSum([v \in rows |-> players_df[v[1]].Salary], rows)

ValidSelection(sel) ==
  /\ SalaryOf(sel.selected_players) <= max_salary
  /\ sel.total_salary <= max_salary
  /\ \A position \in DOMAIN position_requirements :
       Cardinality({r \in sel.selected_players : r[2] = position})
         = position_requirements[position]
  /\ \A r1, r2 \in sel.selected_players : r1[1] = r2[1] => r1 = r2

\* C1: every Selection returned by optimize_roster, in any round, costs at
\* most the budget, fills every category of the quota map with exactly its
\* count, and assigns no candidate to more than one category.
C1_SelectionsValid == \A sel \in Selections : ValidSelection(sel)

\* A third-round lineup of two players that spends the whole budget.
C1_Witness ==
  /\ Len(all_lineups) = 3
  /\ all_lineups[3].total_salary = max_salary
  /\ Cardinality(all_lineups[3].selected_players) = 2

\* C2: any two accumulated Selections i < j share at most
\* total_size - min_diff candidates.
C2_PairwiseOverlap ==
  \A a, b \in DOMAIN all_lineups :
    a < b =>
      Cardinality(PlayerIndices(all_lineups[a]) \cap PlayerIndices(all_lineups[b]))
        <= TotalPlayers(position_requirements) - min_diff

\* Three lineups, the first and the third sharing exactly the allowed number.
C2_Witness ==
  /\ Len(all_lineups) = 3
  /\ min_diff >= 1
  /\ Cardinality(PlayerIndices(all_lineups[1]) \cap PlayerIndices(all_lineups[3]))
       = TotalPlayers(position_requirements) - min_diff
  /\ TotalPlayers(position_requirements) - min_diff >= 1

\* C9: the decision variables are exactly the (candidate, category) pairs
\* with the category eligible for the candidate and a key of the quota map;
\* every selected candidate is assigned such a category.
C9_VariablesFollowEligibility ==
  /\ pc \in {"solve", "solved"} =>
       prob.vars =
         { v \in (DOMAIN players_df) \X (DOMAIN position_requirements) :
             Eligible(players_df[v[1]].RosterPosition, v[2]) }
  /\ \A sel \in Selections :
       /\ \A r \in sel.selected_players :
            /\ r[2] \in DOMAIN position_requirements
            /\ Eligible(players_df[r[1]].RosterPosition, r[2])
       /\ \A idx \in DOMAIN sel.position_assignments :
            /\ sel.position_assignments[idx] \in DOMAIN position_requirements
            /\ Eligible(players_df[idx].RosterPosition,
                        sel.position_assignments[idx])

\* A lineup holding a candidate eligible for two categories, from a pool that
\* also holds a candidate with no eligible category in the quota map.
C9_Witness ==
  /\ DOMAIN position_requirements = {PosB}
  /\ \E idx \in DOMAIN players_df :
       ~Eligible(players_df[idx].RosterPosition, PosB)
  /\ \E sel \in Selections : \E r \in sel.selected_players :
       /\ Eligible(players_df[r[1]].RosterPosition, PosA)
       /\ Eligible(players_df[r[1]].RosterPosition, PosB)

\* C10: the total values of the accumulated Selections never increase from
\* one round to a later one.
C10_ValuesNonIncreasing ==
  \A a, b \in DOMAIN all_lineups :
    a < b => all_lineups[b].total_points <= all_lineups[a].total_points

\* Three lineups, the third worth strictly less than the first.
C10_Witness ==
  /\ Len(all_lineups) = 3
  /\ all_lineups[3].total_points < all_lineups[1].total_points

\* The run has ended the way the loop is said to end: all num_lineups
\* Selections, or the first infeasible round stopped it; the count written
\* with the outputs is the number accumulated.
LoopEndedAsSaid ==
  /\ pc = "done"
  /\ outCount = Len(all_lineups)
  /\ Len(all_lineups) <= num_lineups
  /\ \/ Len(all_lineups) = num_lineups /\ stopMsg = -1
        /\ solverCalls = num_lineups
     \/ Len(all_lineups) < num_lineups /\ stopMsg = Len(all_lineups)
        /\ solverCalls = Len(all_lineups) + 1

\* C3: whenever the run has ended, it has ended with exactly N Selections
\* accumulated or with the first infeasible round having stopped the loop,
\* the reported count being the number accumulated.
C3_RunEndsAsSaid == pc \in {"done", "crashed"} => LoopEndedAsSaid

InvalidConfiguration ==
  \/ max_salary < 0
  \/ \E position \in DOMAIN position_requirements :
       position_requirements[position] <= 0
  \/ min_diff > TotalPlayers(position_requirements)

\* C4: with a negative budget, a quota count <= 0 or min_diff greater than
\* total_size, the solver is never invoked and no Selection is produced.
C4_InvalidConfigurationRejected ==
  InvalidConfiguration =>
    solverCalls = 0 /\ pc # "solve" /\ Selections = {}

EligibleCount(position) ==
  Cardinality({idx \in DOMAIN players_df :
                 Eligible(players_df[idx].RosterPosition, position)})

\* C5: when a category of the quota map requires more candidates than are
\* eligible for it, the model is not submitted to the solver.
C5_ShortCategoryRejected ==
  (\E position \in DOMAIN position_requirements :
     position_requirements[position] > EligibleCount(position))
    => solverCalls = 0 /\ pc # "solve"

\* C6: a single-selection run whose round 0 is infeasible does not go on to
\* generate the outputs and complete.
C6_SingleInfeasibleIsFailure ==
  (num_lineups = 1 /\ stopMsg = 0) => (pc # "done" /\ outCount = -1)

\* Exhaustive search: every assignment of candidates to categories that
\* meets the eligibility, budget, quota and diversity constraints.
Assignments ==
  UNION { [D -> DOMAIN position_requirements] : D \in SUBSET DOMAIN players_df }

MeetsConstraints(f, exclusions) ==
  /\ \A idx \in DOMAIN f : Eligible(players_df[idx].RosterPosition, f[idx])
  /\ SetSum([idx \in DOMAIN f |-> players_df[idx].Salary], DOMAIN f)
       <= max_salary
  /\ \A position \in DOMAIN position_requirements :
       Cardinality({idx \in DOMAIN f : f[idx] = position})
         = position_requirements[position]
  /\ \A n \in DOMAIN exclusions :
       Cardinality(DOMAIN f \cap exclusions[n])
         <= TotalPlayers(position_requirements) - min_diff

ValueOf(f) ==
  SetSum([idx \in DOMAIN f |-> players_df[idx].AvgPointsPerGame], DOMAIN f)

\* The exclusion sets of the round in progress.
RoundExclusions == IF i > 0 THEN previous_lineups ELSE <<>>

\* A round that returned agrees with the exhaustive search.
ReturnAgreesWithSearch ==
  LET A == {f \in Assignments : MeetsConstraints(f, RoundExclusions)}
  IN /\ result.isNone <=> A = {}
     /\ ~result.isNone =>
          /\ \E f \in A : ValueOf(f) = result.total_points
          /\ \A f \in A : ValueOf(f) <= result.total_points

\* C7: one round of optimize_roster returns no Selection exactly when no
\* assignment meets the constraints, and otherwise a Selection of maximum
\* total value.
C7_RoundAgreesWithSearch ==
  /\ pc = "returned" => ReturnAgreesWithSearch
  /\ pc = "crashed" =>
       {f \in Assignments : MeetsConstraints(f, RoundExclusions)} = {}

\* C8: a solver that fails, rather than proving the model infeasible, is
\* never handled as the early stop of the loop, and the run does not
\* complete.
C8_SolverFailureAborts ==
  solverFailed => (stopMsg = -1 /\ pc # "done")

====
